---- MODULE Spec2Model ----
(***************************************************************************)
(* Secret sum contract (zpk/src/lib.rs, zpk/src/zk_compute.rs).            *)
(*                                                                         *)
(* The contract state is ContractState {administrator, sum_result}.  The   *)
(* phase of the protocol is not a field of the contract: it is the         *)
(* calculation_state of the zk state the host hands to every handler       *)
(* (Waiting = Collecting, Calculating = Computing, Done = Done).           *)
(*                                                                         *)
(* Every handler is a pure operator translated from its Rust body.  An     *)
(* action is one transaction: the host calls the handler, and either       *)
(* commits the returned state and applies the returned ZkStateChanges, or  *)
(* (on a panic) commits nothing.  The callbacks are invoked as their doc   *)
(* comments say: inputted_variable when a variable is confirmed,           *)
(* sum_compute_complete when the computation is completed (with the ids of *)
(* its output variables), open_sum_variable when variables are opened      *)
(* (with the ids of the opened variables).                                 *)
(***************************************************************************)
EXTENDS Integers, Sequences, FiniteSets, TLC

VARIABLES
    deployed,           \* TRUE once #[init] has run
    state,              \* ContractState
    calculation_state,  \* zk_state.calculation_state
    variables,          \* zk_state variables, id = index (1-based)
    pending_inputs,     \* secret inputs sent but not yet confirmed on chain
    engine,             \* requests the contract has handed to the zk engine
    last,               \* the last transaction: handler, sender, arguments, outcome
    creator,            \* history: ctx.sender of the #[init] call
    starts,             \* history: number of start_computation requests emitted
    inputs_at_start,    \* history: number of confirmed variables at the start request
    voting,             \* chainvote/src/vote.rs: the Voting contract
    vote_call,          \* the last register / vote call, and how often vote returned true
    vcontract,          \* chainvote/src/type.rs: the VotingContract
    cast_call           \* the last register_voter / cast_vote call, and the true returns

zpk == <<deployed, state, calculation_state, variables, pending_inputs,
         engine, last, creator, starts, inputs_at_start>>

chainvote == <<voting, vote_call, vcontract, cast_call>>

vars == <<deployed, state, calculation_state, variables, pending_inputs,
          engine, last, creator, starts, inputs_at_start,
          voting, vote_call, vcontract, cast_call>>

----------------------------------------------------------------------------
(* Bounds *)

MaxInputs == 3

MaxOutputs == 2

MaxBytes == 5

NumCandidates == 2

MaxTime == 2

(* Program constants *)

BITLENGTH_OF_SECRET_VARIABLES == 32

BYTE == 2 ^ 8

\* A u32 is kept as two 16-bit halves, value = hi * 2^16 + lo, so that the full
\* 32-bit range and its wraparound fit the model checker's integers.
HALF == 2 ^ (BITLENGTH_OF_SECRET_VARIABLES \div 2)

U32(hi, lo) == [hi |-> hi, lo |-> lo]

IsU32(v) == v.hi \in 0..(HALF - 1) /\ v.lo \in 0..(HALF - 1)

\* Mutant: the addition saturates at the largest 32-bit value.
saturating_add(a, b) ==
    IF a.hi + b.hi + ((a.lo + b.lo) \div HALF) >= HALF
    THEN [hi |-> HALF - 1, lo |-> HALF - 1]
    ELSE [hi |-> a.hi + b.hi + ((a.lo + b.lo) \div HALF),
          lo |-> (a.lo + b.lo) % HALF]

\* u32 (Sbi32 bit pattern) addition: the carry out of bit 31 is dropped.
wrapping_add(a, b) ==
    [hi |-> (a.hi + b.hi + ((a.lo + b.lo) \div HALF)) % HALF,
     lo |-> (a.lo + b.lo) % HALF]

Addresses == {"A", "B"}

NoAddress == "none"

InputValues == {U32(0, 7), U32(0, 12), U32(HALF - 1, HALF - 1)}

\* Raw bytes and 32-bit values the variables-opened callback is tried on.
SampleBytes == {0, 5, 19, BYTE - 1}

SampleHalves == {0, 1, BYTE - 1, BYTE, HALF - 1}

SampleU32 == {U32(hi, lo) : hi \in SampleHalves, lo \in SampleHalves}

ByteSeqs == UNION {[1..n -> SampleBytes] : n \in 0..MaxBytes}

----------------------------------------------------------------------------
(* Option<T> as a sequence of length at most one *)

None == <<>>

Some(v) == <<v>>

IsSome(o) == Len(o) = 1

Unwrap(o) == o[1]

----------------------------------------------------------------------------
(* Handler outcomes *)

Ok(st, changes) ==
    [ok |-> TRUE, err |-> "", state |-> st, changes |-> changes]

\* A panic aborts the transaction: nothing is committed, nothing is requested.
Panic(msg, st) ==
    [ok |-> FALSE, err |-> msg, state |-> st, changes |-> <<>>]

AuthorizationError == "Only administrator can start computation"

PhaseError == "Computation must start from Waiting state"

ProtocolViolation == "Unexpected number of output variables"

UnwrapNone == "called Option::unwrap() on a None value"

DecodeError == "source slice length does not match destination slice length"

StartComputation == [kind |-> "start_computation", variables |-> <<>>]

OpenVariables(ids) == [kind |-> "OpenVariables", variables |-> ids]

ContractDone == [kind |-> "ContractDone", variables |-> <<>>]

----------------------------------------------------------------------------
(* Byte conversions *)

\* <u32>::from_le_bytes: buffer[1] is the least significant byte.
from_le_bytes(buffer) ==
    [hi |-> buffer[3] + BYTE * buffer[4], lo |-> buffer[1] + BYTE * buffer[2]]

\* The 4 raw bytes of a 32-bit variable, least significant first.
to_le_bytes(v) ==
    <<v.lo % BYTE, v.lo \div BYTE, v.hi % BYTE, v.hi \div BYTE>>

----------------------------------------------------------------------------
(* Handlers *)

\* Mutant: the administrator is left at its default instead of ctx.sender.
initialize_default_admin(sender) ==
    [administrator |-> NoAddress, sum_result |-> None]

initialize(sender) ==
    [administrator |-> sender, sum_result |-> None]

add_input(st) ==
    [state |-> st,
     input_def |-> [seal |-> FALSE,
                    expected_bit_lengths |-> <<BITLENGTH_OF_SECRET_VARIABLES>>]]

inputted_variable(st, id) == st

\* Mutant: the administrator assertion is missing.
compute_sum_no_auth(sender, st, calc) ==
    IF calc # "Waiting" THEN Panic(PhaseError, st)
    ELSE Ok(st, <<StartComputation>>)

\* Mutant: the Waiting assertion is missing.
compute_sum_no_phase(sender, st, calc) ==
    IF sender # st.administrator THEN Panic(AuthorizationError, st)
    ELSE Ok(st, <<StartComputation>>)

\* Mutant: the two assertions are in the opposite order.
compute_sum_phase_first(sender, st, calc) ==
    IF calc # "Waiting" THEN Panic(PhaseError, st)
    ELSE IF sender # st.administrator THEN Panic(AuthorizationError, st)
    ELSE Ok(st, <<StartComputation>>)

compute_sum(sender, st, calc) ==
    IF sender # st.administrator THEN Panic(AuthorizationError, st)
    ELSE IF calc # "Waiting" THEN Panic(PhaseError, st)
    ELSE Ok(st, <<StartComputation>>)

\* Mutant: the callback publishes a placeholder result before the opening.
sum_compute_complete_stores(st, output_variables) ==
    Ok([st EXCEPT !.sum_result = Some([hi |-> 0, lo |-> 0])],
       <<OpenVariables(output_variables)>>)

\* Mutant: the callback does not request the opening of the output variables.
sum_compute_complete_no_open(st, output_variables) ==
    Ok(st, <<>>)

sum_compute_complete(st, output_variables) ==
    Ok(st, <<OpenVariables(output_variables)>>)

ReadPanic(msg) == [ok |-> FALSE, err |-> msg, value |-> U32(0, 0)]

\* Mutant: the buffer is filled without the length check of copy_from_slice:
\* short data is zero-padded, long data truncated.
read_variable_u32_le_lenient(zk_variables, sum_variable_id) ==
    IF ~IsSome(sum_variable_id) THEN ReadPanic(UnwrapNone)
    ELSE IF Unwrap(sum_variable_id) \notin DOMAIN zk_variables
        THEN ReadPanic(UnwrapNone)
    ELSE LET sum_variable == zk_variables[Unwrap(sum_variable_id)] IN
        IF ~IsSome(sum_variable.data)
            THEN ReadPanic(UnwrapNone)
        ELSE LET data == Unwrap(sum_variable.data) IN
            [ok |-> TRUE, err |-> "",
             value |-> from_le_bytes(
                 [i \in 1..4 |-> IF i <= Len(data) THEN data[i] ELSE 0])]

\* Result of read_variable_u32_le: [ok, err, value]
read_variable_u32_le(zk_variables, sum_variable_id) ==
    IF ~IsSome(sum_variable_id) THEN ReadPanic(UnwrapNone)
    ELSE IF Unwrap(sum_variable_id) \notin DOMAIN zk_variables
        THEN ReadPanic(UnwrapNone)
    ELSE LET sum_variable == zk_variables[Unwrap(sum_variable_id)] IN
        IF ~IsSome(sum_variable.data)
            THEN ReadPanic(UnwrapNone)
        ELSE IF Len(Unwrap(sum_variable.data)) # 4
            THEN ReadPanic(DecodeError)
        ELSE [ok |-> TRUE, err |-> "",
              value |-> from_le_bytes(Unwrap(sum_variable.data))]

\* Vec::get(0)
Get0(v) == IF Len(v) >= 1 THEN Some(v[1]) ELSE None

\* Mutant: the assertion on the number of opened variables is missing.
open_sum_variable_no_assert(st, zk_variables, opened_variables) ==
    LET r == read_variable_u32_le(zk_variables, Get0(opened_variables)) IN
        IF ~r.ok THEN Panic(r.err, st)
        ELSE Ok([st EXCEPT !.sum_result = Some(r.value)], <<ContractDone>>)

\* Mutant: the result is stored but ContractDone is not returned.
open_sum_variable_no_done(st, zk_variables, opened_variables) ==
    IF Len(opened_variables) # 1 THEN Panic(ProtocolViolation, st)
    ELSE LET r == read_variable_u32_le(zk_variables, Get0(opened_variables)) IN
        IF ~r.ok THEN Panic(r.err, st)
        ELSE Ok([st EXCEPT !.sum_result = Some(r.value)], <<>>)

open_sum_variable(st, zk_variables, opened_variables) ==
    IF Len(opened_variables) # 1 THEN Panic(ProtocolViolation, st)
    ELSE LET r == read_variable_u32_le(zk_variables, Get0(opened_variables)) IN
        IF ~r.ok THEN Panic(r.err, st)
        ELSE Ok([st EXCEPT !.sum_result = Some(r.value)], <<ContractDone>>)

----------------------------------------------------------------------------
(* The zk computation *)

num_secret_variables(zk_variables) == Len(zk_variables)

sbi32_input(zk_variables, variable_id) == zk_variables[variable_id].value

\* Mutant: the range stops one short, 1..num_secret_variables().
RECURSIVE zk_compute_loop_short(_, _, _)
zk_compute_loop_short(zk_variables, variable_id, sum) ==
    IF variable_id >= num_secret_variables(zk_variables) THEN sum
    ELSE zk_compute_loop_short(zk_variables, variable_id + 1,
                         wrapping_add(sum, sbi32_input(zk_variables, variable_id)))

RECURSIVE zk_compute_loop(_, _, _)
zk_compute_loop(zk_variables, variable_id, sum) ==
    IF variable_id >= num_secret_variables(zk_variables) + 1 THEN sum
    ELSE zk_compute_loop(zk_variables, variable_id + 1,
                         wrapping_add(sum, sbi32_input(zk_variables, variable_id)))

zk_compute(zk_variables) == zk_compute_loop(zk_variables, 1, U32(0, 0))

----------------------------------------------------------------------------
(* Host: applying the ZkStateChanges a handler returns *)

HasChange(changes, kind) == \E i \in DOMAIN changes : changes[i].kind = kind

NextCalculationState(calc, changes) ==
    IF HasChange(changes, "ContractDone") THEN "Done"
    ELSE IF HasChange(changes, "start_computation") THEN "Calculating"
    ELSE calc

NextEngine(eng, changes) ==
    [starting |-> eng.starting
                    + (IF HasChange(changes, "start_computation") THEN 1 ELSE 0),
     completed |-> eng.completed,
     opening |-> IF HasChange(changes, "OpenVariables")
                 THEN eng.opening \o
                      <<(CHOOSE c \in {changes[i] : i \in DOMAIN changes} :
                            c.kind = "OpenVariables").variables>>
                 ELSE eng.opening]

Call(op, sender, args, r) ==
    [op |-> op, sender |-> sender, args |-> args, ok |-> r.ok, err |-> r.err,
     changes |-> r.changes, calc |-> calculation_state]

NumInputs == Cardinality({i \in DOMAIN variables : variables[i].kind = "input"})

----------------------------------------------------------------------------
(* chainvote/src/vote.rs: contract Voting *)

Times == 0..MaxTime

\* candidate_index is 0-based; NumCandidates is the first invalid index.
CandidateIndexes == 0..NumCandidates

NoCandidates == [i \in 1..NumCandidates |-> 0]

Voter(address) == [address |-> address, voted |-> FALSE]

has_voted(v, address) ==
    IF IsSome(v.voters[address]) THEN Unwrap(v.voters[address]).voted ELSE FALSE

is_within_voting_period(v, current_time) ==
    current_time >= v.start_date /\ current_time <= v.end_date

is_past_end_date(v, current_time) == current_time > v.end_date

\* Mutant: register does not look at the voted flag.
register_no_check(v, address, current_time) ==
    IF is_past_end_date(v, current_time) THEN [result |-> "false", voting |-> v]
    ELSE [result |-> "true",
          voting |-> [v EXCEPT !.voters[address] = Some(Voter(address))]]

register(v, address, current_time) ==
    IF has_voted(v, address) THEN [result |-> "false", voting |-> v]
    ELSE IF is_past_end_date(v, current_time) THEN [result |-> "false", voting |-> v]
    ELSE [result |-> "true",
          voting |-> [v EXCEPT !.voters[address] = Some(Voter(address))]]

\* voters.get_mut(&address).unwrap() panics for an address that never registered;
\* nothing has been written at that point.
vote(v, address, candidate_index, current_time) ==
    IF ~is_within_voting_period(v, current_time) THEN [result |-> "false", voting |-> v]
    ELSE IF has_voted(v, address) THEN [result |-> "false", voting |-> v]
    ELSE IF candidate_index >= Len(v.candidates) THEN [result |-> "false", voting |-> v]
    ELSE IF ~IsSome(v.voters[address]) THEN [result |-> "panic", voting |-> v]
    ELSE [result |-> "true",
          voting |-> [v EXCEPT
              !.voters[address] = Some([Unwrap(@) EXCEPT !.voted = TRUE]),
              !.candidates[candidate_index + 1] = @ + 1]]

NoVoting ==
    [candidates |-> <<>>, voters |-> [a \in Addresses |-> None],
     start_date |-> 0, end_date |-> 0]

NoCall ==
    [op |-> "none", who |-> NoAddress, candidate_index |-> 0, result |-> "none",
     trues |-> [a \in Addresses |-> 0]]

----------------------------------------------------------------------------
(* chainvote/src/type.rs: VotingContract *)

VoterNames == {"valid_id", "John Doe"}

RegisteredVoters ==
    [name : VoterNames, age : {17, 18, 25}, location : {"EligibleRegion", "Elsewhere"}]

is_eligible(voter) == voter.age >= 18 /\ voter.location = "EligibleRegion"

verify_identity(voter, id) == id = "valid_id"

new(candidates) ==
    [candidates |-> candidates,
     eligible_voters |-> [n \in VoterNames |-> None],
     votes_cast |-> [n \in VoterNames |-> None]]

register_voter(c, voter) ==
    IF is_eligible(voter)
    THEN [c EXCEPT !.eligible_voters[voter.name] = Some(voter)]
    ELSE c

\* votes_cast.insert comes before candidates[candidate_index]: an index out of
\* range panics with the entry already inserted.
cast_vote(c, voter_id, candidate_index) ==
    IF IsSome(c.eligible_voters[voter_id])
    THEN IF verify_identity(Unwrap(c.eligible_voters[voter_id]), voter_id)
         THEN IF ~IsSome(c.votes_cast[voter_id])
              THEN LET inserted ==
                       [c EXCEPT !.votes_cast[voter_id] = Some(candidate_index)]
                   IN IF candidate_index >= Len(c.candidates)
                      THEN [result |-> "panic", contract |-> inserted]
                      ELSE [result |-> "true",
                            contract |-> [inserted EXCEPT
                                !.candidates[candidate_index + 1] = @ + 1]]
              ELSE [result |-> "false", contract |-> c]
         ELSE [result |-> "false", contract |-> c]
    ELSE [result |-> "false", contract |-> c]

NoContract == new(<<>>)

NoCast ==
    [op |-> "none", who |-> "none", candidate_index |-> 0, result |-> "none",
     trues |-> [n \in VoterNames |-> 0]]

----------------------------------------------------------------------------
Init ==
    /\ deployed = FALSE
    /\ state = [administrator |-> NoAddress, sum_result |-> None]
    /\ calculation_state = "Waiting"
    /\ variables = <<>>
    /\ pending_inputs = <<>>
    /\ engine = [starting |-> 0, completed |-> <<>>, opening |-> <<>>]
    /\ last = [op |-> "none", sender |-> NoAddress, args |-> <<>>, ok |-> TRUE,
               err |-> "", changes |-> <<>>, calc |-> "Waiting"]
    /\ creator = NoAddress
    /\ starts = 0
    /\ inputs_at_start = 0
    /\ voting = NoVoting
    /\ vote_call = NoCall
    /\ vcontract = NoContract
    /\ cast_call = NoCast

Initialize(sender) ==
    /\ ~deployed
    /\ deployed' = TRUE
    /\ state' = initialize(sender)
    /\ creator' = sender
    /\ last' = Call("initialize", sender, <<>>, Ok(initialize(sender), <<>>))
    /\ UNCHANGED <<calculation_state, variables, pending_inputs, engine, starts,
                   inputs_at_start>>
    /\ UNCHANGED chainvote

AddInput(sender, value) ==
    /\ deployed
    /\ NumInputs + Len(pending_inputs) < MaxInputs
    /\ LET r == add_input(state) IN
        /\ state' = r.state
        /\ r.input_def.expected_bit_lengths = <<BITLENGTH_OF_SECRET_VARIABLES>>
        /\ IsU32(value)
        /\ pending_inputs' = Append(pending_inputs, value)
        /\ last' = Call("add_input", sender, <<>>, Ok(r.state, <<>>))
    /\ UNCHANGED <<deployed, calculation_state, variables, engine, creator, starts,
                   inputs_at_start>>
    /\ UNCHANGED chainvote

InputtedVariable ==
    /\ deployed
    /\ pending_inputs # <<>>
    /\ LET id == Len(variables) + 1
           st == inputted_variable(state, id) IN
        /\ state' = st
        /\ variables' = Append(variables,
              [value |-> Head(pending_inputs), data |-> None, kind |-> "input"])
        /\ pending_inputs' = Tail(pending_inputs)
        /\ last' = Call("inputted_variable", NoAddress, <<id>>, Ok(st, <<>>))
    /\ UNCHANGED <<deployed, calculation_state, engine, creator, starts,
                   inputs_at_start>>
    /\ UNCHANGED chainvote

ComputeSum(sender) ==
    /\ deployed
    /\ LET r == compute_sum(sender, state, calculation_state) IN
        /\ state' = r.state
        /\ calculation_state' = NextCalculationState(calculation_state, r.changes)
        /\ engine' = NextEngine(engine, r.changes)
        /\ last' = Call("compute_sum", sender, <<>>, r)
        /\ starts' = starts + (IF HasChange(r.changes, "start_computation") THEN 1 ELSE 0)
        /\ inputs_at_start' = IF HasChange(r.changes, "start_computation")
                              THEN Len(variables) ELSE inputs_at_start
    /\ UNCHANGED <<deployed, variables, pending_inputs, creator>>
    /\ UNCHANGED chainvote

\* The engine runs zk_compute and stores its k results as output variables.
EngineCompute(k) ==
    /\ calculation_state = "Calculating"
    /\ engine.starting > 0
    /\ LET sum == zk_compute(variables)
           n == Len(variables) IN
        /\ variables' = variables \o
              [i \in 1..k |-> [value |-> sum, data |-> None, kind |-> "output"]]
        /\ engine' = [engine EXCEPT !.starting = @ - 1,
                                    !.completed = Append(@, [i \in 1..k |-> n + i])]
        /\ last' = [op |-> "zk_compute", sender |-> NoAddress,
                    args |-> [i \in 1..k |-> n + i], ok |-> TRUE, err |-> "",
                    changes |-> <<>>, calc |-> calculation_state]
    /\ UNCHANGED <<deployed, state, calculation_state, pending_inputs,
                   creator, starts, inputs_at_start>>
    /\ UNCHANGED chainvote

\* zk_compute returns one Sbi32: one output variable.
ZkCompute == EngineCompute(1)

\* An engine whose wiring is broken reports any number of output variables.
ZkComputeFaulty == \E k \in 0..MaxOutputs : EngineCompute(k)

SumComputeComplete ==
    /\ deployed
    /\ engine.completed # <<>>
    /\ LET output_variables == Head(engine.completed)
           r == sum_compute_complete(state, output_variables) IN
        /\ state' = r.state
        /\ calculation_state' = NextCalculationState(calculation_state, r.changes)
        /\ engine' = NextEngine([engine EXCEPT !.completed = Tail(@)], r.changes)
        /\ last' = Call("sum_compute_complete", NoAddress, output_variables, r)
    /\ UNCHANGED <<deployed, variables, pending_inputs, creator, starts,
                   inputs_at_start>>
    /\ UNCHANGED chainvote

\* The engine declassifies the requested variables: the data of a variable not
\* opened before becomes its 4 raw bytes.
Declassify(zk_variables, ids) ==
    [i \in DOMAIN zk_variables |->
        IF (\E j \in DOMAIN ids : ids[j] = i) /\ ~IsSome(zk_variables[i].data)
        THEN [zk_variables[i] EXCEPT !.data = Some(to_le_bytes(zk_variables[i].value))]
        ELSE zk_variables[i]]

OpenSumVariable ==
    /\ deployed
    /\ engine.opening # <<>>
    /\ LET opened_variables == Head(engine.opening)
           zk_variables == Declassify(variables, opened_variables)
           r == open_sum_variable(state, zk_variables, opened_variables) IN
        /\ variables' = zk_variables
        /\ state' = r.state
        /\ calculation_state' = NextCalculationState(calculation_state, r.changes)
        /\ engine' = NextEngine([engine EXCEPT !.opening = Tail(@)], r.changes)
        /\ last' = Call("open_sum_variable", NoAddress, opened_variables, r)
    /\ UNCHANGED <<deployed, pending_inputs, creator, starts, inputs_at_start>>
    /\ UNCHANGED chainvote

OpenedIds == {i \in DOMAIN variables : IsSome(variables[i].data)}

\* A further variables-opened callback after the contract is done, naming
\* variables that have been opened.
OpenSumVariableAgain(opened_variables) ==
    /\ deployed
    /\ calculation_state = "Done"
    /\ LET r == open_sum_variable(state, variables, opened_variables) IN
        /\ state' = r.state
        /\ calculation_state' = NextCalculationState(calculation_state, r.changes)
        /\ engine' = NextEngine(engine, r.changes)
        /\ last' = Call("open_sum_variable", NoAddress, opened_variables, r)
    /\ UNCHANGED <<deployed, variables, pending_inputs, creator, starts,
                   inputs_at_start>>
    /\ UNCHANGED chainvote

Next ==
    \/ \E sender \in Addresses : Initialize(sender)
    \/ \E sender \in Addresses, value \in InputValues : AddInput(sender, value)
    \/ InputtedVariable
    \/ \E sender \in Addresses : ComputeSum(sender)
    \/ ZkCompute
    \/ SumComputeComplete
    \/ OpenSumVariable
    \/ \E n \in 1..MaxOutputs : \E opened_variables \in [1..n -> OpenedIds] :
          OpenSumVariableAgain(opened_variables)

Spec == Init /\ [][Next]_vars

\* The host eventually runs a started computation, reports its completion and
\* reports the opening of the variables it was asked to open.
\* Progress does not depend on the values contributed: two values are enough.
LiveValues == {U32(0, 7), U32(HALF - 1, HALF - 1)}

NextLive ==
    \/ \E sender \in Addresses : Initialize(sender)
    \/ \E sender \in Addresses, value \in LiveValues : AddInput(sender, value)
    \/ InputtedVariable
    \/ \E sender \in Addresses : ComputeSum(sender)
    \/ ZkCompute
    \/ SumComputeComplete
    \/ OpenSumVariable
    \/ \E n \in 1..MaxOutputs : \E opened_variables \in [1..n -> OpenedIds] :
          OpenSumVariableAgain(opened_variables)

SpecLive ==
    /\ Init
    /\ [][NextLive]_vars
    /\ WF_vars(ZkCompute)
    /\ WF_vars(SumComputeComplete)
    /\ WF_vars(OpenSumVariable)

NextFaulty ==
    \/ \E sender \in Addresses : Initialize(sender)
    \/ \E sender \in Addresses, value \in InputValues : AddInput(sender, value)
    \/ InputtedVariable
    \/ \E sender \in Addresses : ComputeSum(sender)
    \/ ZkComputeFaulty
    \/ SumComputeComplete
    \/ OpenSumVariable

SpecFaulty == Init /\ [][NextFaulty]_vars

----------------------------------------------------------------------------
(* The variables-opened callback on its own: the contract is Calculating, an  *)
(* open request for any number of ids is pending, and the output variable is  *)
(* either a 32-bit value still to be declassified or already carries raw data *)
(* of any length.                                                             *)

InitOpened ==
    /\ deployed = TRUE
    /\ state = initialize("A")
    /\ creator = "A"
    /\ calculation_state = "Calculating"
    /\ variables \in
          {<<[value |-> v, data |-> None, kind |-> "output"]>> : v \in SampleU32}
          \cup {<<[value |-> U32(0, 0), data |-> Some(buf), kind |-> "output"]>> :
                    buf \in ByteSeqs}
    /\ pending_inputs = <<>>
    /\ \E n \in 0..MaxOutputs :
          /\ engine = [starting |-> 0, completed |-> <<>>,
                       opening |-> <<[i \in 1..n |-> 1]>>]
          /\ last = [op |-> "sum_compute_complete", sender |-> NoAddress,
                     args |-> [i \in 1..n |-> 1], ok |-> TRUE, err |-> "",
                     changes |-> <<OpenVariables([i \in 1..n |-> 1])>>,
                     calc |-> "Calculating"]
    /\ starts = 1
    /\ inputs_at_start = 0
    /\ voting = NoVoting
    /\ vote_call = NoCall
    /\ vcontract = NoContract
    /\ cast_call = NoCast

NextOpened == OpenSumVariable

SpecOpened == InitOpened /\ [][NextOpened]_vars

----------------------------------------------------------------------------
(* The Voting contract on its own.  The time retrieval of vote.rs is a        *)
(* placeholder: every call reads some current time.                           *)

ZpkIdle ==
    /\ deployed = FALSE
    /\ state = [administrator |-> NoAddress, sum_result |-> None]
    /\ calculation_state = "Waiting"
    /\ variables = <<>>
    /\ pending_inputs = <<>>
    /\ engine = [starting |-> 0, completed |-> <<>>, opening |-> <<>>]
    /\ last = [op |-> "none", sender |-> NoAddress, args |-> <<>>, ok |-> TRUE,
               err |-> "", changes |-> <<>>, calc |-> "Waiting"]
    /\ creator = NoAddress
    /\ starts = 0
    /\ inputs_at_start = 0

InitVoting ==
    /\ ZpkIdle
    /\ \E start_date \in Times, end_date \in Times :
          voting = [candidates |-> NoCandidates,
                    voters |-> [a \in Addresses |-> None],
                    start_date |-> start_date, end_date |-> end_date]
    /\ vote_call = NoCall
    /\ vcontract = NoContract
    /\ cast_call = NoCast

Register(address, current_time) ==
    /\ LET r == register(voting, address, current_time) IN
        /\ voting' = r.voting
        /\ vote_call' = [vote_call EXCEPT !.op = "register", !.who = address,
                                          !.candidate_index = 0,
                                          !.result = r.result]
    /\ UNCHANGED <<zpk, vcontract, cast_call>>

Vote(address, candidate_index, current_time) ==
    /\ LET r == vote(voting, address, candidate_index, current_time) IN
        /\ voting' = r.voting
        /\ vote_call' = [op |-> "vote", who |-> address,
                         candidate_index |-> candidate_index, result |-> r.result,
                         trues |-> [vote_call.trues EXCEPT ![address] =
                                      @ + (IF r.result = "true" THEN 1 ELSE 0)]]
    /\ UNCHANGED <<zpk, vcontract, cast_call>>

NextVoting ==
    \/ \E address \in Addresses, current_time \in Times :
          Register(address, current_time)
    \/ \E address \in Addresses, candidate_index \in CandidateIndexes,
          current_time \in Times :
          Vote(address, candidate_index, current_time)

SpecVoting == InitVoting /\ [][NextVoting]_vars

----------------------------------------------------------------------------
(* The VotingContract on its own.  A panic unwinds out of cast_vote and       *)
(* leaves the contract as it was at the panic.                                *)

InitContract ==
    /\ ZpkIdle
    /\ voting = NoVoting
    /\ vote_call = NoCall
    /\ vcontract = new(NoCandidates)
    /\ cast_call = NoCast

RegisterVoter(voter) ==
    /\ vcontract' = register_voter(vcontract, voter)
    /\ cast_call' = [cast_call EXCEPT !.op = "register_voter", !.who = voter.name,
                                      !.candidate_index = 0, !.result = "none"]
    /\ UNCHANGED <<zpk, voting, vote_call>>

CastVote(voter_id, candidate_index) ==
    /\ LET r == cast_vote(vcontract, voter_id, candidate_index) IN
        /\ vcontract' = r.contract
        /\ cast_call' = [op |-> "cast_vote", who |-> voter_id,
                         candidate_index |-> candidate_index, result |-> r.result,
                         trues |-> [cast_call.trues EXCEPT ![voter_id] =
                                      @ + (IF r.result = "true" THEN 1 ELSE 0)]]
    /\ UNCHANGED <<zpk, voting, vote_call>>

NextContract ==
    \/ \E voter \in RegisteredVoters : RegisterVoter(voter)
    \/ \E voter_id \in VoterNames, candidate_index \in CandidateIndexes :
          CastVote(voter_id, candidate_index)

SpecContract == InitContract /\ [][NextContract]_vars

----------------------------------------------------------------------------
(* Properties *)

IsStart(call) == call.op = "compute_sum"

\* C1: while the engine is Waiting (phase Collecting), compute_sum by a caller
\* other than the administrator fails with the authorization error, emits no
\* start_computation request and leaves administrator, sum_result and the phase
\* unchanged.
C1_NonAdminStartRejected ==
    [][(IsStart(last') /\ last'.calc = "Waiting" /\ last'.sender # state.administrator)
        => /\ ~last'.ok
           /\ last'.err = AuthorizationError
           /\ last'.changes = <<>>
           /\ starts' = starts
           /\ engine' = engine
           /\ state' = state
           /\ calculation_state' = calculation_state]_vars

C1_Witness ==
    /\ IsStart(last)
    /\ last.calc = "Waiting"
    /\ last.sender # state.administrator
    /\ NumInputs > 0

\* C2 (as claimed): while the engine is not Waiting, compute_sum by any caller
\* fails with the phase error and leaves the state unchanged.
C2_AnyCallerPhaseError ==
    [][(IsStart(last') /\ last'.calc # "Waiting")
        => /\ ~last'.ok
           /\ last'.err = PhaseError
           /\ state' = state
           /\ calculation_state' = calculation_state]_vars

\* C2 (amended): while the engine is not Waiting, compute_sum by any caller fails,
\* emits nothing and leaves the state unchanged; the failure is the phase error
\* when the caller is the administrator and the authorization error otherwise.
C2_LateStartRejected ==
    [][(IsStart(last') /\ last'.calc # "Waiting")
        => /\ ~last'.ok
           /\ last'.err = (IF last'.sender = state.administrator
                           THEN PhaseError ELSE AuthorizationError)
           /\ last'.changes = <<>>
           /\ starts' = starts
           /\ engine' = engine
           /\ state' = state
           /\ calculation_state' = calculation_state]_vars

C2_Witness ==
    /\ IsStart(last)
    /\ last.calc = "Done"
    /\ last.sender # state.administrator
    /\ last.err = AuthorizationError

\* C3: compute_sum by the administrator while the engine is Waiting succeeds and
\* requests the start of the computation, and every step that enters Calculating
\* is such a successful compute_sum by the administrator from Waiting.
C3_OnlyAdminStartEntersComputing ==
    [][/\ (IsStart(last') /\ last'.calc = "Waiting"
              /\ last'.sender = state.administrator)
            => (last'.ok /\ last'.changes = <<StartComputation>>
                  /\ calculation_state' = "Calculating")
       /\ (calculation_state # "Calculating" /\ calculation_state' = "Calculating")
            => (IsStart(last') /\ last'.ok /\ last'.sender = state.administrator
                  /\ calculation_state = "Waiting")]_vars

C3_Witness ==
    /\ IsStart(last)
    /\ last.ok
    /\ last.sender = state.administrator
    /\ calculation_state = "Calculating"

\* C4: the phase only moves Waiting -> Calculating -> Done: no step skips
\* Calculating, moves backwards, or leaves Done.
C4_PhaseMonotonic ==
    [][\/ calculation_state' = calculation_state
       \/ calculation_state = "Waiting" /\ calculation_state' = "Calculating"
       \/ calculation_state = "Calculating" /\ calculation_state' = "Done"]_vars

C4_Witness ==
    /\ calculation_state = "Done"
    /\ IsStart(last)
    /\ last.sender = state.administrator

\* C5: sum_result is written at most once, by the open_sum_variable step that
\* takes the phase from Calculating to Done; once it is Some(v) no later step
\* changes it.
C5_ResultWrittenOnce ==
    [][state'.sum_result # state.sum_result
        => /\ state.sum_result = None
           /\ last'.op = "open_sum_variable"
           /\ calculation_state = "Calculating"
           /\ calculation_state' = "Done"]_vars

C5_Witness ==
    /\ IsSome(state.sum_result)
    /\ last.op = "open_sum_variable"
    /\ last.calc = "Done"
    /\ last.ok

\* C6: initialize sets the administrator to its sender, sum_result to None and
\* leaves the phase at Waiting; in every later state the administrator is still
\* the sender of initialize.
C6_AdministratorFixed ==
    deployed =>
        /\ creator \in Addresses
        /\ state.administrator = creator
        /\ last.op = "initialize"
            => /\ last.sender = state.administrator
               /\ state.sum_result = None
               /\ calculation_state = "Waiting"

C6_Witness ==
    /\ deployed
    /\ creator = "B"
    /\ calculation_state = "Done"

\* C7 (as claimed): sum_compute_complete with an output-id list whose length is
\* not 1 aborts with the protocol violation and issues no open request; with
\* exactly one id it returns exactly one OpenVariables request naming that id.
C7_CompleteChecksOutputCount ==
    [][last'.op = "sum_compute_complete"
        => IF Len(last'.args) # 1
           THEN /\ ~last'.ok
                /\ last'.err = ProtocolViolation
                /\ last'.changes = <<>>
                /\ engine'.opening = engine.opening
           ELSE /\ last'.ok
                /\ last'.changes = <<OpenVariables(last'.args)>>]_vars

OpenedData(call, zk_variables) == Unwrap(zk_variables[call.args[1]].data)

\* C8: open_sum_variable with exactly one opened id whose data is 4 raw bytes
\* stores Some(value of the bytes), emits ContractDone and moves the phase to
\* Done, e.g. [5,0,0,0] gives Some(5); with any other number of opened ids it
\* aborts and changes neither sum_result nor the phase.
C8_OpenedStoresResult ==
    [][last'.op = "open_sum_variable"
        => IF Len(last'.args) = 1
           THEN Len(OpenedData(last', variables')) = 4
                => /\ last'.ok
                   /\ IsSome(state'.sum_result)
                   /\ state'.administrator = state.administrator
                   /\ last'.changes = <<ContractDone>>
                   /\ calculation_state' = "Done"
                   /\ OpenedData(last', variables') = <<5, 0, 0, 0>>
                        => state'.sum_result = Some(U32(0, 5))
                   /\ OpenedData(last', variables') = <<0, 0, 0, 5>>
                        => state'.sum_result = Some(U32(5 * BYTE, 0))
           ELSE /\ ~last'.ok
                /\ last'.err = ProtocolViolation
                /\ last'.changes = <<>>
                /\ state' = state
                /\ calculation_state' = calculation_state]_vars

C8_Witness ==
    /\ last.op = "open_sum_variable"
    /\ Len(last.args) = 1
    /\ OpenedData(last, variables) = <<5, 0, 0, 0>>
    /\ state.sum_result = Some(U32(0, 5))
    /\ calculation_state = "Done"

\* C9: read_variable_u32_le round-trips: the data of a declassified 32-bit value v
\* (its 4 little-endian bytes) is read back as v, 4 bytes b1..b4 are read as
\* b1 + 2^8 b2 + 2^16 b3 + 2^24 b4, and data whose length is not 4 makes the read
\* fail: nothing is stored, nothing is truncated or padded.
C9_DecodeRoundTrip ==
    (last.op = "open_sum_variable" /\ Len(last.args) = 1)
        => LET var == variables[last.args[1]]
               b == Unwrap(var.data)
           IN IF Len(b) = 4
              THEN /\ last.ok
                   /\ state.sum_result =
                        Some(U32(b[3] + BYTE * b[4], b[1] + BYTE * b[2]))
                   /\ to_le_bytes(Unwrap(state.sum_result)) = b
                   /\ b = to_le_bytes(var.value) => state.sum_result = Some(var.value)
              ELSE /\ ~last.ok
                   /\ last.err = DecodeError
                   /\ state.sum_result = None
                   /\ calculation_state = "Calculating"

C9_Witness ==
    /\ last.op = "open_sum_variable"
    /\ last.ok
    /\ variables[1].value = U32(HALF - 1, BYTE)
    /\ state.sum_result = Some(U32(HALF - 1, BYTE))

InputIds == {i \in DOMAIN variables : variables[i].kind = "input"}

\* The sum of the input values as a natural number, in 16-bit halves with the
\* high part unbounded.
RECURSIVE WideSum(_)
WideSum(ids) ==
    IF ids = {} THEN [hi |-> 0, lo |-> 0]
    ELSE LET i == CHOOSE j \in ids : TRUE
             rest == WideSum(ids \ {i})
             lo == rest.lo + variables[i].value.lo
         IN [hi |-> rest.hi + variables[i].value.hi + (lo \div HALF),
             lo |-> lo % HALF]

\* C10: after a complete run (contributions registered, then the administrator
\* starts the computation, the engine completes with one output and opens it) the
\* phase is Done and sum_result is Some(sum of the registered contributions, each
\* once) when that sum fits in 32 bits; 7 and 12 give Some(19).
C10_ResultIsSum ==
    (calculation_state = "Done" /\ NumInputs = inputs_at_start)
        => /\ IsSome(state.sum_result)
           /\ IsU32(WideSum(InputIds)) => state.sum_result = Some(WideSum(InputIds))

C10_Witness ==
    /\ calculation_state = "Done"
    /\ NumInputs = inputs_at_start
    /\ NumInputs = 2
    /\ variables[1].value = U32(0, 7)
    /\ variables[2].value = U32(0, 12)
    /\ state.sum_result = Some(U32(0, 19))

\* C11: add_input, inputted_variable, compute_sum and sum_compute_complete
\* return the contract state unchanged; what they produce is the input
\* definition (a pending 32-bit input), the start request or the open request.
C11_OnlyOpenedCallbackWritesState ==
    [][(last'.op \in {"add_input", "inputted_variable", "compute_sum",
                      "sum_compute_complete"})
        => /\ state' = state
           /\ last'.op = "add_input"
                => (last'.changes = <<>> /\ Len(pending_inputs') = Len(pending_inputs) + 1)
           /\ last'.op = "inputted_variable" => last'.changes = <<>>
           /\ (last'.op = "compute_sum" /\ last'.ok)
                => last'.changes = <<StartComputation>>
           /\ last'.op = "sum_compute_complete"
                => last'.changes = <<OpenVariables(last'.args)>>]_vars

C11_Witness ==
    /\ last.op = "sum_compute_complete"
    /\ last.ok
    /\ NumInputs > 0
    /\ state.sum_result = None
    /\ state.administrator = creator

\* C12: once the administrator has started the computation (the engine is
\* Calculating), and the host eventually delivers the completion and the
\* variables-opened callbacks, the contract eventually is Done with sum_result
\* set.
C12_StartedLeadsToDone ==
    (calculation_state = "Calculating")
        ~> (calculation_state = "Done" /\ IsSome(state.sum_result))

C12_Witness ==
    /\ calculation_state = "Done"
    /\ IsSome(state.sum_result)
    /\ starts = 1
    /\ last.op = "open_sum_variable"
    /\ last.calc = "Calculating"

\* C13 (as claimed): once the engine is Calculating or Done a secret-input
\* request is not accepted, so the computation sums exactly the variables
\* registered while the engine was Waiting.
C13_InputsClosedAfterStart ==
    [][/\ (last'.op = "add_input" /\ last'.calc # "Waiting")
            => (~last'.ok /\ pending_inputs' = pending_inputs)
       /\ last'.op = "zk_compute" => Len(variables) = inputs_at_start]_vars

\* C14: in every state of the deployed contract sum_result is None exactly when
\* the phase is not Done.
C14_ResultIffDone ==
    deployed => ((state.sum_result = None) <=> (calculation_state # "Done"))

C14_Witness ==
    /\ calculation_state = "Done"
    /\ IsSome(state.sum_result)
    /\ last.op = "inputted_variable"

\* C15: at most one start_computation request is ever emitted: after one
\* compute_sum has succeeded every later compute_sum, by any caller, fails and
\* emits nothing.
C15_AtMostOneStart ==
    [][/\ starts' <= 1
       /\ (IsStart(last') /\ starts >= 1)
            => (~last'.ok /\ last'.changes = <<>> /\ starts' = starts
                  /\ engine' = engine)]_vars

C15_Witness ==
    /\ starts = 1
    /\ IsStart(last)
    /\ last.sender = state.administrator
    /\ last.calc = "Calculating"
    /\ engine.opening # <<>>

RECURSIVE SumVotes(_)
SumVotes(candidates) ==
    IF candidates = <<>> THEN 0
    ELSE Head(candidates) + SumVotes(Tail(candidates))

NumVoted(v) ==
    Cardinality({a \in Addresses :
        IsSome(v.voters[a]) /\ Unwrap(v.voters[a]).voted})

\* C17: in Voting no address is counted twice: vote returns true at most once
\* per address, register never clears the voted flag of an address that has
\* voted, the candidates' votes add up to the number of voters with voted = true,
\* and a vote that returns false changes nothing.
C17_NoDoubleVote ==
    [][/\ \A a \in Addresses : vote_call'.trues[a] <= 1
       /\ \A a \in Addresses : has_voted(voting, a) => has_voted(voting', a)
       /\ SumVotes(voting'.candidates) = NumVoted(voting')
       /\ (vote_call'.op = "vote" /\ vote_call'.result = "false")
            => voting' = voting
       /\ (vote_call'.op = "vote" /\ vote_call'.result = "true")
            => (~has_voted(voting, vote_call'.who)
                  /\ SumVotes(voting'.candidates) = SumVotes(voting.candidates) + 1)]_vars

C17_Witness ==
    /\ vote_call.op = "register"
    /\ vote_call.result = "false"
    /\ has_voted(voting, vote_call.who)
    /\ vote_call.trues[vote_call.who] = 1
    /\ SumVotes(voting.candidates) = 2

NumCast(c) == Cardinality({n \in VoterNames : IsSome(c.votes_cast[n])})

\* C18 (as claimed): in VotingContract cast_vote returns true only for a
\* registered eligible voter whose identity verifies and who has no entry in
\* votes_cast, at most once per voter id; the candidates' votes always add up to
\* the number of entries in votes_cast, also for a candidate_index out of range;
\* a cast_vote that returns false leaves candidates and votes_cast unchanged.
C18_VotesMatchVotesCast ==
    [][/\ (cast_call'.op = "cast_vote" /\ cast_call'.result = "true")
            => /\ IsSome(vcontract.eligible_voters[cast_call'.who])
               /\ is_eligible(Unwrap(vcontract.eligible_voters[cast_call'.who]))
               /\ cast_call'.who = "valid_id"
               /\ ~IsSome(vcontract.votes_cast[cast_call'.who])
       /\ \A n \in VoterNames : cast_call'.trues[n] <= 1
       /\ SumVotes(vcontract'.candidates) = NumCast(vcontract')
       /\ (cast_call'.op = "cast_vote" /\ cast_call'.result = "false")
            => /\ vcontract'.candidates = vcontract.candidates
               /\ vcontract'.votes_cast = vcontract.votes_cast]_vars

====
